---- MODULE Spec2Model ----
(***************************************************************************)
(* Model of c/secp256k1_blake160_multisig_all.c: the lock script that      *)
(* checks an M-of-N multisignature with a mandatory "first R keys" rule.   *)
(*                                                                         *)
(* The script runs once per call (main), top to bottom.  The model follows *)
(* main() stage by stage: every stage of the source is one action, guarded *)
(* by the program counter pc, and every early return of the source ends    *)
(* the call with the source's error code.  Buffers are byte sequences      *)
(* (1-based here, 0-based in C).  The host (CKB VM syscalls), molecule     *)
(* framing, blake2b and secp256k1 are libraries the script calls; they are *)
(* modelled by what the script relies on, see the comments at each.        *)
(***************************************************************************)
EXTENDS Integers, Sequences, FiniteSets, TLC

(***************************************************************************)
(* Program constants (src/c/secp256k1_blake160_multisig_all.c:6-28).       *)
(***************************************************************************)
ERROR_ARGUMENTS_LEN == -1
ERROR_ENCODING == -2
ERROR_SYSCALL == -3
ERROR_SECP_RECOVER_PUBKEY == -11
ERROR_SECP_PARSE_SIGNATURE == -12
ERROR_SECP_SERIALIZE_PUBKEY == -13
ERROR_WITNESS_LEN == -21
ERROR_INVALID_PUBKEYS_CNT == -22
ERROR_INVALID_THRESHOLD == -23
ERROR_INVALID_REQUIRE_FIRST_N == -24
ERROR_MULTSIG_SCRIPT_HASH == -31
ERROR_VERIFICATION == -32

BLAKE2B_BLOCK_SIZE == 32
BLAKE160_SIZE == 20
PUBKEY_SIZE == 33
TEMP_SIZE == 1024
RECID_INDEX == 64
MAX_WITNESS_SIZE == 32768
MAX_SCRIPT_SIZE == 32768
SIGNATURE_SIZE == 65
FLAGS_SIZE == 4

(* Return codes of the host's syscalls (ckb_syscalls.h). *)
CKB_SUCCESS == 0
CKB_INDEX_OUT_OF_BOUND == 1
(* Stands for every other code a syscall can return. *)
CKB_OTHER_ERROR == CKB_INDEX_OUT_OF_BOUND + 1

(***************************************************************************)
(* Bounds of the model.                                                    *)
(***************************************************************************)
MaxPubkeys == 3
MaxOthers == 2

(***************************************************************************)
(* Byte-sequence helpers.                                                  *)
(***************************************************************************)
Min(a, b) == IF a < b THEN a ELSE b

Rep(n, b) == [k \in 1..n |-> b]

(* s[from .. from+n-1], 1-based *)
Slice(s, from, n) == [k \in 1..n |-> s[from + k - 1]]

RECURSIVE Concat(_)
Concat(ss) == IF ss = <<>> THEN <<>> ELSE Head(ss) \o Concat(Tail(ss))

(* little-endian 32-bit number, as molecule stores sizes and offsets *)
LE4(n) == << n % 256, (n \div 256) % 256, (n \div 65536) % 256, (n \div 16777216) % 256 >>

UnLE4(s, at) == s[at] + 256 * s[at + 1] + 65536 * s[at + 2] + 16777216 * s[at + 3]

(***************************************************************************)
(* blake2b (blake2b.h).  The script uses it as a streaming hash: init,     *)
(* update with a buffer and a length, final.  The model keeps the state as *)
(* a number that absorbs one unit at a time; the multiplier is odd and the *)
(* modulus a power of two, so two streams of equal length that differ in   *)
(* one byte never give the same state.  A unit is a byte (0..255) or, for  *)
(* bulk data the model does not spell out, a token (see Bulk).             *)
(***************************************************************************)
Mix(acc, x) == (acc * 127 + x + 1) % 16777216

blake2b_init(outlen) == outlen

(* Absorb data[lo..hi] in order.  The range is split in halves, and the    *)
(* state is looked at first (it is never negative), so that the evaluation *)
(* of a long stream stays shallow.                                         *)
RECURSIVE Absorb(_, _, _, _)
Absorb(acc, data, lo, hi) ==
  IF acc < 0 \/ lo > hi THEN acc
  ELSE IF lo = hi THEN Mix(acc, data[lo])
  ELSE Absorb(Absorb(acc, data, lo, (lo + hi) \div 2), data, (lo + hi) \div 2 + 1, hi)

blake2b_update(ctx, data) == Absorb(ctx, data, 1, Len(data))

(* The outlen bytes of the digest: every byte depends on the final state,  *)
(* and the first three carry all of it.                                    *)
blake2b_final(ctx, outlen) ==
  [k \in 1..outlen |->
     (CASE k % 3 = 1 -> ctx % 256
        [] k % 3 = 2 -> (ctx \div 256) % 256
        [] OTHER     -> (ctx \div 65536) % 256)]

(***************************************************************************)
(* Bulk data.  A group witness after the first, and the fields of the      *)
(* first witness after its lock field, are data the script only feeds to   *)
(* the hash.  The model writes n such bytes of content c as the two units  *)
(* <<256 + c, n>> (nothing when n = 0).  Content 0 is what a read finds in *)
(* memory the host did not fill: bytes of the stack, not of any witness.   *)
(***************************************************************************)
Bulk(c, n) == IF n = 0 THEN <<>> ELSE << 256 + c, n >>

StackBytes(n) == Bulk(0, n)

(***************************************************************************)
(* secp256k1 (secp256k1_helper.h), as the script uses it.  A compressed    *)
(* public key is 33 bytes; a recoverable signature is 64 compact bytes and *)
(* a recovery id.  In the model the key of signer k is the byte 2 or 3     *)
(* followed by 32 bytes k, and the signature of signer k over a 32-byte    *)
(* message is 32 bytes k (r), the message (s) and the recovery id.         *)
(* Recovery over the signed message gives the signer's key; recovery over  *)
(* any other message gives a key of nobody (signer k + 100).               *)
(***************************************************************************)
Pubkey(k) == << 2 + (k % 2) >> \o Rep(PUBKEY_SIZE - 1, k)

Sign(k, msg, recid) == Rep(32, k) \o msg \o << recid >>

(* secp256k1_ecdsa_recoverable_signature_parse_compact: 1 on success *)
secp256k1_parse_compact(sig64, recid) == IF recid \in 0..3 THEN 1 ELSE 0

(* secp256k1_ecdsa_recover: <<1, signer>> on success, <<0, 0>> when r = 0 *)
secp256k1_ecdsa_recover(sig64, msg) ==
  IF sig64[1] = 0 THEN << 0, 0 >>
  ELSE IF Slice(sig64, 33, 32) = msg THEN << 1, sig64[1] >>
  ELSE << 1, (sig64[1] + 100) % 256 >>

(* secp256k1_ec_pubkey_serialize, SECP256K1_EC_COMPRESSED *)
secp256k1_ec_pubkey_serialize(k) == Pubkey(k)

(***************************************************************************)
(* molecule (protocol_reader.h).  A WitnessArgs table is a 4-byte total    *)
(* size, three 4-byte field offsets (lock, input_type, output_type) and    *)
(* the fields; the lock field is a 4-byte length and the bytes.  The model *)
(* spells out the header and the lock field; the other two fields are      *)
(* `rest` bulk bytes behind them.                                          *)
(***************************************************************************)
MolHeaderSize == 4 + 3 * 4

WitnessArgs(lock, rest) ==
  LE4(MolHeaderSize + 4 + Len(lock) + rest) \o LE4(MolHeaderSize)
    \o LE4(MolHeaderSize + 4 + Len(lock)) \o LE4(MolHeaderSize + 4 + Len(lock))
    \o LE4(Len(lock)) \o lock

(* mol_cut(&witness_pos, MOL_WitnessArgs_lock()) then mol_cut_bytes: the   *)
(* position (0-based offset, size) of the lock bytes in the buffer, or a   *)
(* nonzero code.  buf holds the bytes the model spells out, size is the    *)
(* size the caller passes (witness_len).                                   *)
MolCutLockBytes(buf, size) ==
  IF size < MolHeaderSize \/ Len(buf) < MolHeaderSize + 4 THEN [code |-> 1, off |-> 0, size |-> 0]
  ELSE IF UnLE4(buf, 1) /= size \/ UnLE4(buf, 5) /= MolHeaderSize
          \/ UnLE4(buf, 9) < MolHeaderSize + 4 \/ UnLE4(buf, 9) > size
       THEN [code |-> 1, off |-> 0, size |-> 0]
  ELSE IF UnLE4(buf, 17) /= UnLE4(buf, 9) - MolHeaderSize - 4
          \/ MolHeaderSize + 4 + UnLE4(buf, 17) > Len(buf)
       THEN [code |-> 1, off |-> 0, size |-> 0]
  ELSE [code |-> 0, off |-> MolHeaderSize + 4, size |-> UnLE4(buf, 17)]

(* Extract lock from WitnessArgs *)
extract_witness_lock(witness, len) ==
  LET r == MolCutLockBytes(witness, len)
  IN  IF r.code /= 0 THEN [ret |-> ERROR_ENCODING, pos |-> r]
      ELSE [ret |-> 0, pos |-> r]

(***************************************************************************)
(* The host.  A syscall that loads an item takes a buffer and the number   *)
(* of bytes it may write (len); it writes at most that many bytes of the   *)
(* item and stores the item's full size in len.                            *)
(***************************************************************************)
HostLoad(len, actual) == [len |-> actual, written |-> Min(len, actual)]

(***************************************************************************)
(* State.                                                                  *)
(*   input   what the host holds for this call: the script (args), the     *)
(*           group witnesses, the transaction hash, the secp256k1 data     *)
(*   call    0 for the first call, 1 for the call on the altered bundle    *)
(*   altered the change made to the bundle between the calls               *)
(* The locals of main(), with the names of the source:                     *)
(*   witness is the part of the buffer the model spells out (header and    *)
(*   lock field); witness_rest counts the bulk bytes the host wrote behind *)
(*   it.  beyond is the memory behind used_signatures[], the cells that    *)
(*   used_signatures[j] names for j >= threshold.                          *)
(* History, written and never read by the program:                         *)
(*   crypto  the cryptographic steps taken, in order                       *)
(*   loads   one record per witness load                                   *)
(*   touched the indices j at which used_signatures[j] was read or written *)
(*   matched matched[k] is the public-key index signature k-1 was matched  *)
(*           to                                                            *)
(***************************************************************************)
VARIABLES input, call, altered,
          pc, result,
          args, witness, witness_rest, witness_len, lock_pos, lock_bytes,
          pubkeys_cnt, threshold, require_first_n,
          multisig_script_len, signatures_len,
          blake2b_ctx, message, i, used_signatures, beyond,
          crypto, loads, touched, matched

env == << input, call, altered >>
locals == << args, witness, witness_rest, witness_len, lock_pos, lock_bytes,
             pubkeys_cnt, threshold, require_first_n,
             multisig_script_len, signatures_len,
             blake2b_ctx, message, i, used_signatures, beyond >>
history == << crypto, loads, touched, matched >>
vars == << env, pc, result, locals, history >>

NoPos == [code |-> 0, off |-> 0, size |-> 0]

(* return <code> *)
Return(code) == pc' = "done" /\ result' = code

Goto(label) == pc' = label /\ UNCHANGED result

(***************************************************************************)
(* main(), lines 75-95: load the script, cut its args.                     *)
(***************************************************************************)
LoadArgs ==
  /\ pc = "load_args"
  /\ IF input.script.ret /= CKB_SUCCESS THEN Return(ERROR_SYSCALL)
     ELSE IF input.script.code /= 0 THEN Return(ERROR_ENCODING)
     ELSE IF Len(input.script.args) /= BLAKE160_SIZE THEN Return(ERROR_ARGUMENTS_LEN)
     ELSE Goto("load_witness")
  /\ args' = IF input.script.ret = CKB_SUCCESS /\ input.script.code = 0
             THEN input.script.args ELSE args
  /\ UNCHANGED << env, witness, witness_rest, witness_len, lock_pos, lock_bytes,
                  pubkeys_cnt, threshold, require_first_n,
                  multisig_script_len, signatures_len,
                  blake2b_ctx, message, i, used_signatures, beyond, history >>

(***************************************************************************)
(* main(), lines 97-115: load the first witness of the group, extract its  *)
(* lock field, copy the lock bytes.                                        *)
(***************************************************************************)
LoadWitness ==
  /\ pc = "load_witness"
  /\ LET w    == input.first
         got  == HostLoad(MAX_WITNESS_SIZE, Len(w.bytes) + w.rest)
         buf  == SubSeq(w.bytes, 1, Min(Len(w.bytes), got.written))
         ext  == extract_witness_lock(buf, got.len)
     IN  /\ IF w.ret /= CKB_SUCCESS THEN Return(ERROR_SYSCALL)
            ELSE IF ext.ret /= 0 THEN Return(ERROR_ENCODING)
            ELSE IF ext.pos.size < FLAGS_SIZE THEN Return(ERROR_WITNESS_LEN)
            ELSE Goto("flags")
         /\ IF w.ret /= CKB_SUCCESS
            THEN UNCHANGED << witness, witness_rest, witness_len, lock_pos, lock_bytes, loads >>
            ELSE /\ witness' = buf
                 /\ witness_rest' = got.written - Len(buf)
                 /\ witness_len' = got.len
                 /\ lock_pos' = ext.pos
                 /\ lock_bytes' = IF ext.ret = 0 /\ ext.pos.size >= FLAGS_SIZE
                                  THEN Slice(buf, ext.pos.off + 1, ext.pos.size)
                                  ELSE lock_bytes
                 /\ loads' = Append(loads, [index |-> 0, capacity |-> MAX_WITNESS_SIZE,
                                            size |-> got.len, written |-> got.written,
                                            parsed |-> TRUE, hashed |-> 0])
  /\ UNCHANGED << env, args, pubkeys_cnt, threshold, require_first_n,
                  multisig_script_len, signatures_len,
                  blake2b_ctx, message, i, used_signatures, beyond,
                  crypto, touched, matched >>

(***************************************************************************)
(* main(), lines 117-138: the flags and the checks on them.                *)
(***************************************************************************)
(* the threshold byte taken as it is *)
NormalizedThreshold_asread(thr, cnt) == thr

NormalizedThreshold(thr, cnt) == IF thr = 0 THEN cnt ELSE thr

MultisigScriptLen(cnt) == FLAGS_SIZE + PUBKEY_SIZE * cnt

SignaturesLen(thr) == SIGNATURE_SIZE * thr

RequiredLockLen(cnt, thr) == MultisigScriptLen(cnt) + SignaturesLen(thr)

(* the length check as "too short" only *)
FlagsCheck_atleast(cnt, thr, rfn, len) ==
  IF cnt = 0 THEN ERROR_INVALID_PUBKEYS_CNT
  ELSE IF thr > cnt THEN ERROR_INVALID_THRESHOLD
  ELSE IF rfn > NormalizedThreshold(thr, cnt) THEN ERROR_INVALID_REQUIRE_FIRST_N
  ELSE IF len < RequiredLockLen(cnt, NormalizedThreshold(thr, cnt)) THEN ERROR_WITNESS_LEN
  ELSE 0

(* The code the checks of lines 121-138 return, 0 when all pass.  cnt, thr *)
(* and rfn are the bytes as read; thr is normalized after its own check.   *)
FlagsCheck(cnt, thr, rfn, len) ==
  IF cnt = 0 THEN ERROR_INVALID_PUBKEYS_CNT
  ELSE IF thr > cnt THEN ERROR_INVALID_THRESHOLD
  ELSE IF rfn > NormalizedThreshold(thr, cnt) THEN ERROR_INVALID_REQUIRE_FIRST_N
  ELSE IF len /= RequiredLockLen(cnt, NormalizedThreshold(thr, cnt)) THEN ERROR_WITNESS_LEN
  ELSE 0

GetFlags ==
  /\ pc = "flags"
  /\ LET cnt == lock_bytes[3 + 1]
         thr == lock_bytes[2 + 1]
         rfn == lock_bytes[1 + 1]
         chk == FlagsCheck(cnt, thr, rfn, Len(lock_bytes))
     IN  /\ pubkeys_cnt' = cnt
         /\ threshold' = IF cnt = 0 \/ thr > cnt THEN thr ELSE NormalizedThreshold(thr, cnt)
         /\ require_first_n' = rfn
         /\ IF chk /= 0
            THEN /\ Return(chk)
                 /\ UNCHANGED << multisig_script_len, signatures_len >>
            ELSE /\ Goto("script_hash")
                 /\ multisig_script_len' = MultisigScriptLen(cnt)
                 /\ signatures_len' = SignaturesLen(NormalizedThreshold(thr, cnt))
  /\ UNCHANGED << env, args, witness, witness_rest, witness_len, lock_pos, lock_bytes,
                  blake2b_ctx, message, i, used_signatures, beyond, history >>

(***************************************************************************)
(* main(), lines 140-148: check multisig script hash.                      *)
(***************************************************************************)
ScriptHash(script) ==
  blake2b_final(blake2b_update(blake2b_init(BLAKE2B_BLOCK_SIZE), script),
                BLAKE2B_BLOCK_SIZE)

(* the comparison left out *)
HashDiffers_never(a, temp) == FALSE

(* memcmp(args, temp, BLAKE160_SIZE) != 0 *)
HashDiffers(a, temp) == SubSeq(a, 1, BLAKE160_SIZE) /= SubSeq(temp, 1, BLAKE160_SIZE)

CheckScriptHash ==
  /\ pc = "script_hash"
  /\ crypto' = Append(crypto, "script_hash")
  /\ IF HashDiffers(args, ScriptHash(SubSeq(lock_bytes, 1, multisig_script_len)))
     THEN Return(ERROR_MULTSIG_SCRIPT_HASH)
     ELSE Goto("tx_hash")
  /\ UNCHANGED << env, locals, loads, touched, matched >>

(***************************************************************************)
(* main(), lines 150-161: load tx hash, start the sign message with it.    *)
(***************************************************************************)
LoadTxHash ==
  /\ pc = "tx_hash"
  /\ crypto' = Append(crypto, "load_tx_hash")
  /\ IF input.tx.ret /= CKB_SUCCESS
     THEN Return(ERROR_SYSCALL) /\ UNCHANGED blake2b_ctx
     ELSE /\ Goto("digest_first")
          /\ blake2b_ctx' = blake2b_update(blake2b_init(BLAKE2B_BLOCK_SIZE), input.tx.hash)
  /\ UNCHANGED << env, args, witness, witness_rest, witness_len, lock_pos, lock_bytes,
                  pubkeys_cnt, threshold, require_first_n,
                  multisig_script_len, signatures_len,
                  message, i, used_signatures, beyond, loads, touched, matched >>

(***************************************************************************)
(* main(), lines 163-169: set signature to zero in the witness buffer,     *)
(* then digest the first witness: witness_len bytes from the buffer.  The  *)
(* host filled the first MAX_WITNESS_SIZE of them at most; the bytes read  *)
(* behind the buffer are bytes of the stack.                               *)
(***************************************************************************)
ZeroSignatures(buf, off, from, n) ==
  [k \in 1..Len(buf) |-> IF k > off + from /\ k <= off + from + n THEN 0 ELSE buf[k]]

FirstWitnessStream(buf, rest, len) ==
  buf \o Bulk(1, rest) \o StackBytes(len - (Len(buf) + rest))

DigestFirst ==
  /\ pc = "digest_first"
  /\ witness' = ZeroSignatures(witness, lock_pos.off, multisig_script_len, signatures_len)
  /\ blake2b_ctx' = blake2b_update(blake2b_ctx,
                                   FirstWitnessStream(witness', witness_rest, witness_len))
  /\ crypto' = Append(crypto, "digest")
  /\ loads' = [loads EXCEPT ![1].hashed = witness_len]
  /\ i' = 1
  /\ Goto("digest_other")
  /\ UNCHANGED << env, args, witness_rest, witness_len, lock_pos, lock_bytes,
                  pubkeys_cnt, threshold, require_first_n,
                  multisig_script_len, signatures_len,
                  message, used_signatures, beyond, touched, matched >>

(***************************************************************************)
(* main(), lines 170-181: one turn of the loop that digests the other      *)
(* witnesses.  The witness is loaded into temp (TEMP_SIZE bytes) with      *)
(* len = MAX_WITNESS_SIZE, and len bytes of temp are hashed.  When the     *)
(* witness fits temp these are its bytes.  When it does not, the host      *)
(* writes behind temp and the hash reads behind temp: the bytes hashed     *)
(* are either what the host wrote there or what the stack holds there.     *)
(***************************************************************************)
TempStreams(c, got) ==
  IF got.len <= TEMP_SIZE THEN { Bulk(c, got.len) }
  ELSE { Bulk(c, got.written) \o StackBytes(got.len - got.written),
         Bulk(c, TEMP_SIZE) \o StackBytes(got.len - TEMP_SIZE) }

WitnessRet(k) == IF k <= Len(input.others) THEN CKB_SUCCESS ELSE input.end_ret

DigestOther ==
  /\ pc = "digest_other"
  /\ IF WitnessRet(i) = CKB_INDEX_OUT_OF_BOUND
     THEN Goto("final") /\ UNCHANGED << blake2b_ctx, i, loads >>
     ELSE IF WitnessRet(i) /= CKB_SUCCESS
     THEN Return(ERROR_SYSCALL) /\ UNCHANGED << blake2b_ctx, i, loads >>
     ELSE LET got == HostLoad(MAX_WITNESS_SIZE, input.others[i].size)
          IN  /\ \E stream \in TempStreams(input.others[i].content, got) :
                    blake2b_ctx' = blake2b_update(blake2b_ctx, stream)
              /\ loads' = Append(loads, [index |-> i, capacity |-> TEMP_SIZE,
                                         size |-> got.len, written |-> got.written,
                                         parsed |-> FALSE, hashed |-> got.len])
              /\ i' = i + 1
              /\ Goto("digest_other")
  /\ UNCHANGED << env, args, witness, witness_rest, witness_len, lock_pos, lock_bytes,
                  pubkeys_cnt, threshold, require_first_n,
                  multisig_script_len, signatures_len,
                  message, used_signatures, beyond, crypto, touched, matched >>

(***************************************************************************)
(* main(), line 182: the sign message.                                     *)
(***************************************************************************)
FinalizeMessage ==
  /\ pc = "final"
  /\ message' = blake2b_final(blake2b_ctx, BLAKE2B_BLOCK_SIZE)
  /\ Goto("init_verify")
  /\ UNCHANGED << env, args, witness, witness_rest, witness_len, lock_pos, lock_bytes,
                  pubkeys_cnt, threshold, require_first_n,
                  multisig_script_len, signatures_len,
                  blake2b_ctx, i, used_signatures, beyond, history >>

(***************************************************************************)
(* main(), lines 184-193: used_signatures[threshold], zeroed, and the      *)
(* secp256k1 context.  The array has threshold entries; the cells behind   *)
(* it, which used_signatures[j] names for threshold <= j < pubkeys_cnt,    *)
(* are not the array's and hold whatever the stack holds: any byte.  The   *)
(* scan only asks whether a cell is 1, so 0, 1 and 255 stand for all.      *)
(***************************************************************************)
StackCellValues == {0, 1, 255}

InitVerify ==
  /\ pc = "init_verify"
  /\ used_signatures' = Rep(threshold, 0)
  /\ beyond' \in [threshold..(pubkeys_cnt - 1) -> StackCellValues]
  /\ i' = 0
  /\ IF input.secp_ret /= 0 THEN Return(input.secp_ret) ELSE Goto("verify")
  /\ UNCHANGED << env, args, witness, witness_rest, witness_len, lock_pos, lock_bytes,
                  pubkeys_cnt, threshold, require_first_n,
                  multisig_script_len, signatures_len,
                  blake2b_ctx, message, history >>

(***************************************************************************)
(* main(), lines 195-235: one turn of the loop over the signatures: parse  *)
(* signature i, recover and serialize its public key, scan the public keys *)
(* of the multisig script for the first unused one that equals it.         *)
(***************************************************************************)
(* an entry that is never seen as marked *)
UsedAt_unmarked(j) == 0

(* used_signatures[j], 0-based, wherever j points *)
UsedAt(j) == IF j < Len(used_signatures) THEN used_signatures[j + 1] ELSE beyond[j]

(* &lock_bytes[FLAGS_SIZE + j * PUBKEY_SIZE], PUBKEY_SIZE bytes *)
PubkeyAt(j) == Slice(lock_bytes, FLAGS_SIZE + j * PUBKEY_SIZE + 1, PUBKEY_SIZE)

(* &lock_bytes[signature_offset], signature i *)
SignatureOffset(k) == multisig_script_len + k * SIGNATURE_SIZE

SignatureAt(k) == Slice(lock_bytes, SignatureOffset(k) + 1, RECID_INDEX)

RecidAt(k) == lock_bytes[SignatureOffset(k) + RECID_INDEX + 1]

(* The inner loop, lines 219-230, from index j on: the index it matches    *)
(* and marks, pubkeys_cnt when it runs to its end without a match.         *)
RECURSIVE ScanPubkeys(_, _)
ScanPubkeys(j, temp) ==
  IF j >= pubkeys_cnt THEN pubkeys_cnt
  ELSE IF UsedAt(j) = 1 THEN ScanPubkeys(j + 1, temp)
  ELSE IF PubkeyAt(j) /= temp THEN ScanPubkeys(j + 1, temp)
  ELSE j

VerifySignature ==
  /\ pc = "verify"
  /\ LET parsed == secp256k1_parse_compact(SignatureAt(i), RecidAt(i))
         rec    == secp256k1_ecdsa_recover(SignatureAt(i), message)
         temp   == secp256k1_ec_pubkey_serialize(rec[2])
         j      == ScanPubkeys(0, temp)
     IN  IF parsed = 0
         THEN /\ Return(ERROR_SECP_PARSE_SIGNATURE)
              /\ crypto' = Append(crypto, "parse_signature")
              /\ UNCHANGED << i, used_signatures, beyond, touched, matched >>
         ELSE IF rec[1] /= 1
         THEN /\ Return(ERROR_SECP_RECOVER_PUBKEY)
              /\ crypto' = crypto \o << "parse_signature", "recover" >>
              /\ UNCHANGED << i, used_signatures, beyond, touched, matched >>
         ELSE /\ crypto' = crypto \o << "parse_signature", "recover" >>
              /\ touched' = touched \cup (0..Min(j, pubkeys_cnt - 1))
              /\ IF j = pubkeys_cnt
                 THEN /\ Return(ERROR_VERIFICATION)
                      /\ UNCHANGED << i, used_signatures, beyond, matched >>
                 ELSE /\ IF j < Len(used_signatures)
                         THEN /\ used_signatures' = [used_signatures EXCEPT ![j + 1] = 1]
                              /\ UNCHANGED beyond
                         ELSE /\ beyond' = [beyond EXCEPT ![j] = 1]
                              /\ UNCHANGED used_signatures
                      /\ matched' = Append(matched, j)
                      /\ i' = i + 1
                      /\ IF i + 1 < threshold THEN Goto("verify") ELSE Goto("first_n")
  /\ UNCHANGED << env, args, witness, witness_rest, witness_len, lock_pos, lock_bytes,
                  pubkeys_cnt, threshold, require_first_n,
                  multisig_script_len, signatures_len,
                  blake2b_ctx, message, loads >>

(***************************************************************************)
(* main(), lines 237-243: the first require_first_n public keys must all   *)
(* be marked.                                                              *)
(***************************************************************************)
(* the check left out *)
FirstUnmarked_skipped(j, n) == n

(* the first index below n that is not marked, n when all are *)
RECURSIVE FirstUnmarked(_, _)
FirstUnmarked(j, n) ==
  IF j >= n THEN n
  ELSE IF UsedAt(j) /= 1 THEN j
  ELSE FirstUnmarked(j + 1, n)

CheckFirstN ==
  /\ pc = "first_n"
  /\ LET j == FirstUnmarked(0, require_first_n)
     IN  /\ touched' = touched \cup (0..Min(j, require_first_n - 1))
         /\ IF j < require_first_n THEN Return(ERROR_VERIFICATION) ELSE Return(0)
  /\ UNCHANGED << env, locals, crypto, loads, matched >>

(***************************************************************************)
(* The bundles a call is given.  A bundle is built the way a wallet builds *)
(* it: the multisig script S | R | M | N | Pubkey1 | ..., the sign message *)
(* over the transaction hash and the group's witnesses with the signature  *)
(* area zero, and one signature per entry of `signers`.                    *)
(***************************************************************************)
TxHash == [k \in 1..BLAKE2B_BLOCK_SIZE |-> k]

MultisigScript(S, R, M, N, keys) ==
  << S, R, M, N >> \o Concat([k \in 1..Len(keys) |-> Pubkey(keys[k])])

OthersStream(others) ==
  Concat([k \in 1..Len(others) |-> Bulk(others[k].content, others[k].size)])

(* The message the signers sign: the hash of the transaction hash, the     *)
(* first witness with its signature area zero, then the other witnesses.   *)
SigningMessage(script, nsigs, rest, others) ==
  blake2b_final(
    blake2b_update(blake2b_init(BLAKE2B_BLOCK_SIZE),
      TxHash \o WitnessArgs(script \o Rep(SIGNATURE_SIZE * nsigs, 0), rest)
             \o Bulk(1, rest) \o OthersStream(others)),
    BLAKE2B_BLOCK_SIZE)

(* A signer is [who, how]: how = "ok" signs the message, "stale" signs     *)
(* another message, "recid" gives a recovery id out of range; who = 0      *)
(* gives a signature with r = 0.                                           *)
SignatureOf(signer, msg) ==
  CASE signer.how = "ok"    -> Sign(signer.who, msg, signer.who % 4)
    [] signer.how = "stale" -> Sign(signer.who, Rep(BLAKE2B_BLOCK_SIZE, 0), 0)
    [] OTHER                -> Sign(signer.who, msg, 4)

Ok(k) == [who |-> k, how |-> "ok"]

LockOf(script, signers, rest, others) ==
  LET msg == SigningMessage(script, Len(signers), rest, others)
  IN  script \o Concat([k \in 1..Len(signers) |-> SignatureOf(signers[k], msg)])

(* drop the last byte (d = -1), keep (d = 0) or add a byte (d = 1) *)
Resize(lock, d) ==
  CASE d = -1 -> SubSeq(lock, 1, Len(lock) - 1)
    [] d = 1  -> Append(lock, 0)
    [] OTHER  -> lock

(* The fingerprint of a multisig script: the first 20 bytes of its hash.    *)
Fingerprint(script) ==
  SubSeq(blake2b_final(blake2b_update(blake2b_init(32), script), 32), 1, 20)

(* the number of signatures a wallet puts behind a script with threshold   *)
(* byte M and N keys                                                       *)
SignatureCount(M, N) == IF M = 0 THEN N ELSE M

GoodScript(script) ==
  [ret |-> CKB_SUCCESS, code |-> 0, args |-> Fingerprint(script)]

Bundle(script, lock, rest, others) ==
  [script   |-> GoodScript(script),
   first    |-> [ret |-> CKB_SUCCESS, bytes |-> WitnessArgs(lock, rest), rest |-> rest],
   tx       |-> [ret |-> CKB_SUCCESS, hash |-> TxHash],
   others   |-> others,
   end_ret  |-> CKB_INDEX_OUT_OF_BOUND,
   secp_ret |-> 0]

(* Key lists of length n: the keys of signers 1..n, all distinct, and the  *)
(* lists that name signer 1 twice, at the first two places or at the first *)
(* and the last.                                                           *)
KeyLists(n) ==
  { [k \in 1..n |-> k] }
    \cup (IF n < 2 THEN {}
          ELSE { [k \in 1..n |-> IF k = 1 THEN 1 ELSE k - 1],
                 [k \in 1..n |-> IF k = n THEN 1 ELSE k] })

(* Policies: the well-formed multisig scripts of up to maxN keys, each     *)
(* with every list of M signers drawn from signers 1..N (a signer whose    *)
(* key the list of keys lacks is not in the policy).  Threshold byte 0 is  *)
(* taken with the keys all distinct and R = 0 or R = N.                    *)
PolicyBundle(R, M, keys, signers) ==
  Bundle(MultisigScript(0, R, M, Len(keys), keys),
         LockOf(MultisigScript(0, R, M, Len(keys), keys), signers, 0, <<>>), 0, <<>>)

PolicyInputs(maxN) ==
  UNION { UNION { UNION {
    { PolicyBundle(R, M, keys, signers) :
        signers \in [1..SignatureCount(M, N) -> {Ok(k) : k \in 1..N}],
        keys \in IF M = 0 THEN { [k \in 1..N |-> k] } ELSE KeyLists(N) } :
      R \in IF M = 0 THEN {0, N} ELSE 0..M } :
    M \in 0..N } :
  N \in 1..maxN }

(* Shapes: every header over 0..MaxPubkeys + 1, with a lock one byte short *)
(* of, equal to or one byte over the required length, and locks too short  *)
(* to hold the header.                                                     *)
ShapeKeys(N) == [k \in 1..N |-> k]

ShapeSigners(M, N) == [k \in 1..SignatureCount(M, N) |-> Ok(k)]

ShapeInputs(maxN) ==
  { Bundle(MultisigScript(0, R, M, N, ShapeKeys(N)),
           Resize(LockOf(MultisigScript(0, R, M, N, ShapeKeys(N)),
                         ShapeSigners(M, N), 0, <<>>), d), 0, <<>>) :
      << R, M, N, d >> \in (0..(maxN + 1)) \X (0..(maxN + 1)) \X (0..maxN) \X {-1, 0, 1} }
  \cup { Bundle(<< 0, 1, 1, 1 >>, SubSeq(<< 0, 1, 1, 1 >>, 1, n), 0, <<>>) : n \in 0..3 }

(* Hosts: a 2-of-2 and a 1-of-2 bundle in every environment: the other     *)
(* witnesses of the group, the bytes of the first witness behind its lock  *)
(* field, and the failures of the host and the libraries.                  *)
WitnessSizes == { 0, TEMP_SIZE, TEMP_SIZE + 1, MAX_WITNESS_SIZE, MAX_WITNESS_SIZE + 1 }

RestSizes == { 0, TEMP_SIZE, MAX_WITNESS_SIZE }

OtherLists(maxOthers) ==
  UNION { { [k \in 1..n |-> [content |-> 1 + k, size |-> sizes[k]]] :
            sizes \in [1..n -> WitnessSizes] } : n \in 0..maxOthers }

HostScripts == { MultisigScript(0, 1, 2, 2, << 1, 2 >>), MultisigScript(0, 0, 1, 2, << 1, 2 >>) }

HostSigners(script) == IF script[3] = 2 THEN << Ok(2), Ok(1) >> ELSE << Ok(2) >>

HostBundle(script, rest, others) ==
  Bundle(script, LockOf(script, HostSigners(script), rest, others), rest, others)

HostInputs(maxOthers) ==
  { [HostBundle(script, rest, others) EXCEPT !.end_ret = e] :
      << script, rest, others, e >> \in
        HostScripts \X RestSizes \X OtherLists(maxOthers) \X { CKB_INDEX_OUT_OF_BOUND, CKB_OTHER_ERROR } }
  \cup UNION { LET b == HostBundle(script, 0, <<>>)
               IN  { [b EXCEPT !.script.ret = CKB_OTHER_ERROR],
                     [b EXCEPT !.script.code = 1],
                     [b EXCEPT !.script.args = SubSeq(b.script.args, 1, BLAKE160_SIZE - 1)],
                     [b EXCEPT !.script.args = [b.script.args EXCEPT ![BLAKE160_SIZE] = (@ + 1) % 256]],
                     [b EXCEPT !.first.ret = CKB_OTHER_ERROR],
                     [b EXCEPT !.first.bytes = [b.first.bytes EXCEPT ![5] = (@ + 1) % 256]],
                     [b EXCEPT !.first.bytes = SubSeq(b.first.bytes, 1, 3)],
                     [b EXCEPT !.tx.ret = CKB_OTHER_ERROR],
                     [b EXCEPT !.secp_ret = -101],
                     [b EXCEPT !.first.bytes =
                        WitnessArgs(LockOf(script, << [who |-> 1, how |-> "stale"], Ok(2) >>, 0, <<>>), 0)],
                     [b EXCEPT !.first.bytes =
                        WitnessArgs(LockOf(script, << [who |-> 1, how |-> "recid"], Ok(2) >>, 0, <<>>), 0)],
                     [b EXCEPT !.first.bytes =
                        WitnessArgs(LockOf(script, << Ok(0), Ok(2) >>, 0, <<>>), 0)] } :
               script \in { MultisigScript(0, 1, 2, 2, << 1, 2 >>) } }

(***************************************************************************)
(* The state a call starts in.                                             *)
(***************************************************************************)
Start(bundles) ==
  /\ input \in bundles
  /\ call = 0
  /\ altered = [pos |-> 0, old |-> 0, new |-> 0]
  /\ pc = "load_args"
  /\ result = 0
  /\ args = <<>>
  /\ witness = <<>>
  /\ witness_rest = 0
  /\ witness_len = 0
  /\ lock_pos = NoPos
  /\ lock_bytes = <<>>
  /\ pubkeys_cnt = 0
  /\ threshold = 0
  /\ require_first_n = 0
  /\ multisig_script_len = 0
  /\ signatures_len = 0
  /\ blake2b_ctx = 0
  /\ message = <<>>
  /\ i = 0
  /\ used_signatures = <<>>
  /\ beyond = <<>>
  /\ crypto = <<>>
  /\ loads = <<>>
  /\ touched = {}
  /\ matched = <<>>

(***************************************************************************)
(* Between calls: a bundle the script accepted is submitted again with one *)
(* byte of its multisig script (a flag, or a byte of a public key) changed *)
(* and everything else, the script args and the signatures, as it was.     *)
(* pos is the 0-based offset of the byte in the lock.                      *)
(***************************************************************************)
AlteredPositions(cnt) ==
  (0..(FLAGS_SIZE - 1))
    \cup { FLAGS_SIZE + j * PUBKEY_SIZE + o : j \in 0..(cnt - 1), o \in {0, 1, PUBKEY_SIZE - 1} }

AlteredValues(pos, old) ==
  IF pos < FLAGS_SIZE THEN ((0..(MaxPubkeys + 1)) \cup {255}) \ {old}
  ELSE { (old + 1) % 256 }

AlterAndCallAgain ==
  /\ pc = "done"
  /\ call = 0
  /\ result = 0
  /\ \E pos \in AlteredPositions(pubkeys_cnt) :
       \E new \in AlteredValues(pos, lock_bytes[pos + 1]) :
         /\ altered' = [pos |-> pos, old |-> lock_bytes[pos + 1], new |-> new]
         /\ input' = [input EXCEPT !.first.bytes[lock_pos.off + pos + 1] = new]
  /\ call' = 1
  /\ pc' = "load_args"
  /\ result' = 0
  /\ args' = <<>>
  /\ witness' = <<>>
  /\ witness_rest' = 0
  /\ witness_len' = 0
  /\ lock_pos' = NoPos
  /\ lock_bytes' = <<>>
  /\ pubkeys_cnt' = 0
  /\ threshold' = 0
  /\ require_first_n' = 0
  /\ multisig_script_len' = 0
  /\ signatures_len' = 0
  /\ blake2b_ctx' = 0
  /\ message' = <<>>
  /\ i' = 0
  /\ used_signatures' = <<>>
  /\ beyond' = <<>>
  /\ crypto' = <<>>
  /\ loads' = <<>>
  /\ touched' = {}
  /\ matched' = <<>>

Next ==
  \/ LoadArgs
  \/ LoadWitness
  \/ GetFlags
  \/ CheckScriptHash
  \/ LoadTxHash
  \/ DigestFirst
  \/ DigestOther
  \/ FinalizeMessage
  \/ InitVerify
  \/ VerifySignature
  \/ CheckFirstN
  \/ AlterAndCallAgain

InitPolicy == Start(PolicyInputs(MaxPubkeys))

InitShape == Start(ShapeInputs(MaxPubkeys))

InitHost == Start(HostInputs(MaxOthers))

(* the well-formed policies and their signature lists *)
SpecPolicy == InitPolicy /\ [][Next]_vars

(* the headers and lock lengths, well-formed or not *)
SpecShape == InitShape /\ [][Next]_vars

(* the environments: witnesses of the group, failures of host and libraries *)
SpecHost == InitHost /\ [][Next]_vars

(***************************************************************************)
(* What the properties speak of, read off the bundle as the documentation  *)
(* of the script describes it (not off the locals of main).                *)
(***************************************************************************)
Done == pc = "done"

(* The host and the libraries serve every request of the call. *)
HostServes ==
  /\ input.script.ret = CKB_SUCCESS /\ input.script.code = 0
  /\ input.first.ret = CKB_SUCCESS
  /\ input.tx.ret = CKB_SUCCESS
  /\ input.end_ret = CKB_INDEX_OUT_OF_BOUND
  /\ input.secp_ret = 0

(* LockBytes: the lock field of the first group witness *)
InLock == SubSeq(input.first.bytes, MolHeaderSize + 4 + 1, Len(input.first.bytes))

WellFramed ==
  /\ Len(input.first.bytes) >= MolHeaderSize + 4
  /\ input.first.bytes = WitnessArgs(InLock, input.first.rest)

InR == InLock[2]
InThresholdByte == InLock[3]
InN == InLock[4]
InM == IF InThresholdByte = 0 THEN InN ELSE InThresholdByte

(* pubkey_count >= 1, threshold <= pubkey_count, require_first_n <= threshold *)
HeaderValid ==
  /\ WellFramed
  /\ Len(InLock) >= 4
  /\ InN >= 1
  /\ InThresholdByte <= InN
  /\ InR <= InM

InRequiredLen == 4 + 33 * InN + 65 * InM

PolicyValid == HeaderValid /\ Len(InLock) = InRequiredLen

InPolicyPrefix == SubSeq(InLock, 1, 4 + 33 * InN)

(* the fingerprint of the policy equals the 20-byte script argument *)
FingerprintMatches ==
  /\ Len(input.script.args) = 20
  /\ input.script.args = Fingerprint(InPolicyPrefix)

(* public key j and signature k of the bundle, 0-based *)
InKey(j) == SubSeq(InLock, 4 + 33 * j + 1, 4 + 33 * j + 33)

InSig(k) == SubSeq(InLock, 4 + 33 * InN + 65 * k + 1, 4 + 33 * InN + 65 * k + 65)

(* The digest of section 4.3 for this bundle. *)
InDigest == SigningMessage(InPolicyPrefix, InM, input.first.rest, input.others)

(* The public key signature k recovers to over digest d, <<>> if it does   *)
(* not parse or does not recover.                                          *)
RecoveredOver(k, d) ==
  LET sig == InSig(k)
      rec == secp256k1_ecdsa_recover(SubSeq(sig, 1, 64), d)
  IN  IF secp256k1_parse_compact(SubSeq(sig, 1, 64), sig[65]) = 0 THEN <<>>
      ELSE IF rec[1] /= 1 THEN <<>>
      ELSE secp256k1_ec_pubkey_serialize(rec[2])

(* what the signatures 0..M-1 recover to over the digest of the bundle *)
InRecovered == LET d == InDigest IN [k \in 0..(InM - 1) |-> RecoveredOver(k, d)]

InKeys == [j \in 0..(InN - 1) |-> InKey(j)]

AllRecover(rec) == \A k \in DOMAIN rec : rec[k] /= <<>>

(* The ways to give every signature a public-key index of its own that     *)
(* holds the key it recovers to.                                           *)
Assignments(rec, keys) ==
  { p \in [DOMAIN rec -> DOMAIN keys] :
      /\ \A k \in DOMAIN rec : rec[k] = keys[p[k]]
      /\ \A k1, k2 \in DOMAIN rec : k1 /= k2 => p[k1] /= p[k2] }

Covers(p, n) == \A j \in 0..(n - 1) : \E k \in DOMAIN p : p[k] = j

(* a bundle the script is to judge on its signatures alone *)
Judged == HostServes /\ PolicyValid /\ FingerprintMatches

(***************************************************************************)
(* C1.  A valid policy whose fingerprint is the script argument, with a    *)
(* lock of exactly the required length and M signatures that recover to    *)
(* exactly the public keys at indices 0..M-1, in any order, is accepted:   *)
(* the call returns 0.                                                     *)
(***************************************************************************)
FirstMSigned ==
  \E p \in Assignments(InRecovered, InKeys) : \A k \in DOMAIN p : p[k] < InM

C1_FirstMSignersAccepted ==
  (Done /\ Judged /\ FirstMSigned) => result = 0

(* accepted with the signatures out of key order, more keys than           *)
(* signatures and every signed key mandatory                               *)
C1_Witness ==
  /\ Done /\ call = 0 /\ result = 0
  /\ InN = 3 /\ InM = 2 /\ InR = 2
  /\ Judged /\ FirstMSigned
  /\ InRecovered[0] = InKey(1) /\ InRecovered[1] = InKey(0)

(***************************************************************************)
(* C2.  With require_first_n = R > 0, a bundle in which some public key of *)
(* index j < R equals the key of none of the M signatures is rejected: the *)
(* call never returns 0, whatever the other signatures match.              *)
(***************************************************************************)
SomeFirstKeyUnsigned(rec) ==
  \E j \in 0..(InR - 1) : \A k \in DOMAIN rec : rec[k] /= InKey(j)

C2_MissingFirstNRejected ==
  (Done /\ result = 0 /\ Judged) => ~SomeFirstKeyUnsigned(InRecovered)

(* rejected by the check of the first R keys: both signatures are valid    *)
(* and matched to the distinct keys 1 and 2, key 0 is mandatory            *)
C2_Witness ==
  /\ Done /\ call = 0 /\ result = ERROR_VERIFICATION
  /\ matched = << 1, 2 >>
  /\ InN = 3 /\ InM = 2 /\ InR = 1
  /\ Judged /\ SomeFirstKeyUnsigned(InRecovered)
  /\ Assignments(InRecovered, InKeys) /= {}

(***************************************************************************)
(* C3 as stated.  A valid policy with the right fingerprint and signatures *)
(* that all parse and recover: when a signer's signature is repeated in    *)
(* the list, the call returns ERROR_VERIFICATION.                          *)
(***************************************************************************)
SignatureRepeated == \E k1, k2 \in 0..(InM - 1) : k1 /= k2 /\ InSig(k1) = InSig(k2)

C3_RepeatedSignatureRejected ==
  (Done /\ Judged /\ SignatureRepeated /\ AllRecover(InRecovered))
    => result = ERROR_VERIFICATION

(***************************************************************************)
(* C3 as amended.  A valid policy with the right fingerprint and           *)
(* signatures that all parse and recover: when some public key is          *)
(* recovered from more signatures than the policy has entries holding      *)
(* that key, the call returns ERROR_VERIFICATION.                          *)
(***************************************************************************)
Times(f, v) == Cardinality({ x \in DOMAIN f : f[x] = v })

KeyOversigned(rec, keys) == \E k \in DOMAIN rec : Times(rec, rec[k]) > Times(keys, rec[k])

C3_OversignedKeyRejected ==
  (Done /\ Judged /\ AllRecover(InRecovered) /\ KeyOversigned(InRecovered, InKeys))
    => result = ERROR_VERIFICATION

(* key 0 signs both slots of a 2-of-3 policy of distinct keys: the first   *)
(* signature is matched to index 0, the second finds no unused key         *)
C3_Witness ==
  /\ Done /\ call = 0 /\ result = ERROR_VERIFICATION
  /\ matched = << 0 >>
  /\ InN = 3 /\ InM = 2
  /\ Judged /\ SignatureRepeated
  /\ InRecovered[0] = InKey(0)
  /\ InKey(0) /= InKey(1) /\ InKey(0) /= InKey(2)

(***************************************************************************)
(* C4.  M valid signatures of M distinct policy keys whose indices include *)
(* 0..R-1 are accepted, whatever the indices, also indices >= threshold    *)
(* when pubkey_count > threshold (N = 3, M = 2, R = 1, keys [A, B, C],     *)
(* signatures [by C, by A]).                                               *)
(***************************************************************************)
Satisfiable(rec, keys) == \E p \in Assignments(rec, keys) : Covers(p, InR)

C4_AnyUnusedKeyAccepted ==
  (Done /\ Judged /\ AllRecover(InRecovered) /\ Satisfiable(InRecovered, InKeys))
    => result = 0

(***************************************************************************)
(* C8.  With signatures that all parse and recover, the matcher rejects    *)
(* only bundles that no assignment of signatures to public-key indices     *)
(* satisfies (M distinct indices, 0..R-1 among them); the outcome is then  *)
(* the same for every order of the signature list.                         *)
(***************************************************************************)
C8_RejectsOnlyUnsatisfiable ==
  (Done /\ result /= 0 /\ Judged /\ AllRecover(InRecovered))
    => ~Satisfiable(InRecovered, InKeys)

(***************************************************************************)
(* C9.  While the matcher runs, the match-state has one entry per policy   *)
(* public key: every index the scan and the first-N check touch is an      *)
(* entry of used_signatures, and an entry (a cell used_signatures[j],      *)
(* j < pubkey_count) is 1 only if a signature of this call was matched to  *)
(* public key j.                                                           *)
(***************************************************************************)
InMatcher == pc \in {"verify", "first_n"} \/ (Done /\ matched /= <<>>)

C9_MatchStateSized ==
  InMatcher =>
    /\ Len(used_signatures) = pubkeys_cnt
    /\ \A j \in touched : j < Len(used_signatures)
    /\ \A j \in 0..(pubkeys_cnt - 1) :
         UsedAt(j) = 1 => \E k \in 1..Len(matched) : matched[k] = j

(***************************************************************************)
(* The structural check of section 4.1 on the lock of the bundle: the code *)
(* of the first check that fails, 0 when none does.                        *)
(***************************************************************************)
InStructuralError ==
  IF Len(InLock) < 4 THEN ERROR_WITNESS_LEN
  ELSE IF InN = 0 THEN ERROR_INVALID_PUBKEYS_CNT
  ELSE IF InThresholdByte > InN THEN ERROR_INVALID_THRESHOLD
  ELSE IF InR > InM THEN ERROR_INVALID_REQUIRE_FIRST_N
  ELSE IF Len(InLock) /= InRequiredLen THEN ERROR_WITNESS_LEN
  ELSE 0

(* the script and the first witness are loaded and well-formed *)
Loaded ==
  /\ input.script.ret = CKB_SUCCESS /\ input.script.code = 0
  /\ Len(input.script.args) = 20
  /\ input.first.ret = CKB_SUCCESS
  /\ WellFramed

(***************************************************************************)
(* C5 as stated.  An accepted bundle, submitted again with one byte of its *)
(* policy prefix changed and the script argument and signatures as they    *)
(* were, fails with ERROR_MULTSIG_SCRIPT_HASH or ERROR_VERIFICATION and    *)
(* with no other code.                                                     *)
(***************************************************************************)
C5_AlteredFailsHashOrVerification ==
  (Done /\ call = 1) => result \in { ERROR_MULTSIG_SCRIPT_HASH, ERROR_VERIFICATION }

(***************************************************************************)
(* C5 as amended.  An accepted bundle, submitted again with one byte of    *)
(* its policy prefix changed, fails: with the structural error of section  *)
(* 4.1 when the changed header fails a structural check, and otherwise,    *)
(* the fingerprint of the changed prefix being another one, with           *)
(* ERROR_MULTSIG_SCRIPT_HASH.                                              *)
(***************************************************************************)
C5_AlteredFailsStructureOrHash ==
  (Done /\ call = 1) =>
    IF InStructuralError /= 0 THEN result = InStructuralError
    ELSE FingerprintMatches \/ result = ERROR_MULTSIG_SCRIPT_HASH

(* the pubkey_count byte of an accepted 2-of-3 bundle changed: the lock no *)
(* longer has the required length                                          *)
C5_Witness ==
  /\ Done /\ call = 1
  /\ altered.pos = 3 /\ altered.old = 3 /\ altered.new = 2
  /\ InThresholdByte = 2
  /\ result = ERROR_WITNESS_LEN

(***************************************************************************)
(* C6.  With a valid header (pubkey_count >= 1, threshold <= pubkey_count, *)
(* require_first_n <= normalized threshold) and a lock one byte shorter or *)
(* longer than 4 + 33 * pubkey_count + 65 * threshold, the call returns    *)
(* ERROR_WITNESS_LEN and has taken no cryptographic step.                  *)
(***************************************************************************)
OneByteOff == Len(InLock) = InRequiredLen - 1 \/ Len(InLock) = InRequiredLen + 1

C6_LengthMismatchBeforeCrypto ==
  (Done /\ Loaded /\ HeaderValid /\ OneByteOff)
    => (result = ERROR_WITNESS_LEN /\ crypto = <<>>)

(* a 3-of-3 policy written with threshold byte 0 and one byte too many *)
C6_Witness ==
  /\ Done /\ call = 0 /\ Loaded /\ HeaderValid
  /\ InN = 3 /\ InThresholdByte = 0 /\ InR = 3
  /\ Len(InLock) = InRequiredLen + 1
  /\ result = ERROR_WITNESS_LEN /\ crypto = <<>>

(***************************************************************************)
(* C7.  Every load of a group witness, at index 0 and behind, takes no     *)
(* more bytes from the host and hashes no more bytes than the buffer it is *)
(* loaded into holds, and a witness of more than 32 KiB is neither parsed  *)
(* nor hashed: the call fails with ERROR_SYSCALL.                          *)
(***************************************************************************)
C7_WitnessLoadsBounded ==
  \A k \in 1..Len(loads) :
    /\ loads[k].written <= loads[k].capacity
    /\ loads[k].hashed <= loads[k].capacity
    /\ loads[k].size > MAX_WITNESS_SIZE =>
         (~loads[k].parsed /\ loads[k].hashed = 0 /\ (Done => result = ERROR_SYSCALL))

(***************************************************************************)
(* C10.  The sign message is the hash of the transaction hash, the first   *)
(* group witness with the signature area of its lock zero, and the raw     *)
(* bytes of the group witnesses 1, 2, ... in order; the signatures the     *)
(* matcher parses are the bytes of the bundle, not the zeroed ones.        *)
(***************************************************************************)
C10_DigestAsSpecified ==
  message /= <<>> => (message = InDigest /\ lock_bytes = InLock)

====
